---- MODULE Spec2Model ----
(***************************************************************************)
(* A model of the DXFViewer React component (src/src/DXFViewer.tsx, the    *)
(* revision at lines 1-295): the effect that builds a three.js session,    *)
(* the asynchronous read of the DXF source, loadData (parse, translate     *)
(* entities to primitives, frame the camera, report), the animation loop   *)
(* and cleanup.                                                            *)
(*                                                                         *)
(* Coordinates are integers; the inputs use even coordinates so that the   *)
(* centre of a bounding box, (min + max) / 2, is an integer too.           *)
(* A JavaScript value that may be undefined is an option: <<>> is          *)
(* undefined (or null), <<v>> is the value v.                              *)
(***************************************************************************)
EXTENDS Integers, Sequences, FiniteSets, TLC

\* ---------------------------------------------------------------- bounds
\* effect runs (mount plus re-runs on a change of file / onLoad / onError)
MaxLoads == 2
\* animation frames the browser delivers
MaxFrames == 2
\* entities fed to the translation loop when it is checked on its own
MaxEnts == 2
\* length of the vertex array of a 3DFACE / SOLID entity
MaxVerts == 4

\* ------------------------------------------------------- program constants
\* .slice(0, 4)
FaceSlice == 4
\* cameraPosition?.z ?? 5
DefaultCameraZ == 5
\* new THREE.OrthographicCamera(..., 1, 1000): near and far
CameraNear == 1
CameraFar == 1000

\* ----------------------------------------------------------- JS values
None == <<>>

Some(v) == <<v>>

\* typeof v === 'number'
IsNumber(o) == o # None

Max(a, b) == IF a >= b THEN a ELSE b

Min(a, b) == IF a <= b THEN a ELSE b

\* a vertex object of the parser: x, y, z may each be missing; nul is a null
\* element of a vertex array
Vtx(x, y, z) == [nul |-> FALSE, x |-> x, y |-> y, z |-> z]

NullVtx == [nul |-> TRUE, x |-> None, y |-> None, z |-> None]

\* new THREE.Vector3(v.x, v.y, v.z ?? 0)
Vector3(v) == <<v.x[1], v.y[1], IF v.z # None THEN v.z[1] ELSE 0>>

\* ------------------------------------------------------------ THREE.Box3
\* new THREE.Box3(): min = +Infinity, max = -Infinity, i.e. no point yet
Box3 == [empty |-> TRUE, min |-> <<0, 0, 0>>, max |-> <<0, 0, 0>>]

expandByPoint(box, p) ==
  IF box.empty
    THEN [empty |-> FALSE, min |-> p, max |-> p]
    ELSE [empty |-> FALSE,
          min |-> [i \in 1..3 |-> Min(box.min[i], p[i])],
          max |-> [i \in 1..3 |-> Max(box.max[i], p[i])]]

RECURSIVE expandByPoints(_, _)
\* points.forEach((p) => box.expandByPoint(p))
expandByPoints(box, pts) ==
  IF pts = <<>> THEN box
  ELSE expandByPoints(expandByPoint(box, Head(pts)), Tail(pts))

\* box.getCenter(center)
getCenter(box) == [i \in 1..3 |-> (box.min[i] + box.max[i]) \div 2]

\* box.getSize(size)
getSize(box) == [i \in 1..3 |-> box.max[i] - box.min[i]]

containsPoint(box, p) ==
  /\ ~box.empty
  /\ \A i \in 1..3 : box.min[i] <= p[i] /\ p[i] <= box.max[i]

\* ----------------------------------------------- entity translation
\* v && typeof v.x === 'number' && typeof v.y === 'number'
vertexFilter(v) == ~v.nul /\ IsNumber(v.x) /\ IsNumber(v.y)

\* arr.filter(...).slice(0, 4).map((v) => new THREE.Vector3(...))
facePoints(arr) ==
  LET kept == SelectSeq(arr, vertexFilter)
      cut == SubSeq(kept, 1, Min(Len(kept), FaceSlice))
  IN [i \in 1..Len(cut) |-> Vector3(cut[i])]

\* faceIndices without the degenerate-quad test
faceIndicesNoEquals(points) ==
  IF Len(points) = 4 THEN <<0, 1, 2, 0, 2, 3>> ELSE <<0, 1, 2>>

\* points.length === 4 && !points[3].equals(points[2]) ? [0,1,2,0,2,3] : [0,1,2]
faceIndices(points) ==
  IF Len(points) = 4 /\ points[4] # points[3]
    THEN <<0, 1, 2, 0, 2, 3>>
    ELSE <<0, 1, 2>>

\* a primitive of the scene: a THREE.Line or a THREE.Mesh with its geometry
Line(pts) ==
  [kind |-> "Line", pts |-> pts, index |-> <<>>, material |-> "line",
   geometryDisposed |-> FALSE]

Mesh(pts, index) ==
  [kind |-> "Mesh", pts |-> pts, index |-> index, material |-> "mesh",
   geometryDisposed |-> FALSE]

\* the state of the entity loop: the objects added to the scene, box and
\* hasGeometry
NewLoop == [added |-> <<>>, box |-> Box3, hasGeometry |-> FALSE]

\* the LINE branch's condition
lineTest(ent) ==
  /\ ent.type = "LINE"
  /\ ent.start # None
  /\ ent.end # None
  /\ IsNumber(ent.start[1].x)
  /\ IsNumber(ent.start[1].y)
  /\ IsNumber(ent.end[1].x)
  /\ IsNumber(ent.end[1].y)

\* faceBranch with points.length > 3 for points.length >= 3
faceBranchOffByOne(acc, arr) ==
  LET points == facePoints(arr) IN
  IF Len(points) > 3
    THEN [added |-> Append(acc.added, Mesh(points, faceIndices(points))),
          box |-> expandByPoints(acc.box, points),
          hasGeometry |-> TRUE]
    ELSE acc

\* the body shared by the 3DFACE and the SOLID branch
faceBranch(acc, arr) ==
  LET points == facePoints(arr) IN
  IF Len(points) >= 3
    THEN [added |-> Append(acc.added, Mesh(points, faceIndices(points))),
          box |-> expandByPoints(acc.box, points),
          hasGeometry |-> TRUE]
    ELSE acc

\* entityStep dropping what the loop has built when an entity has no branch
entityStepDropping(acc, ent) ==
  IF lineTest(ent)
    THEN LET start == Vector3(ent.start[1])
             end == Vector3(ent.end[1])
         IN [added |-> Append(acc.added, Line(<<start, end>>)),
             box |-> expandByPoint(expandByPoint(acc.box, start), end),
             hasGeometry |-> TRUE]
  ELSE IF ent.type = "3DFACE" /\ ent.vertices # None
    THEN faceBranch(acc, ent.vertices[1])
  ELSE IF ent.type = "SOLID" /\ ent.points # None
    THEN faceBranch(acc, ent.points[1])
  ELSE NewLoop

\* one call of the forEach callback
entityStep(acc, ent) ==
  IF lineTest(ent)
    THEN LET start == Vector3(ent.start[1])
             end == Vector3(ent.end[1])
         IN [added |-> Append(acc.added, Line(<<start, end>>)),
             box |-> expandByPoint(expandByPoint(acc.box, start), end),
             hasGeometry |-> TRUE]
  ELSE IF ent.type = "3DFACE" /\ ent.vertices # None
    THEN faceBranch(acc, ent.vertices[1])
  ELSE IF ent.type = "SOLID" /\ ent.points # None
    THEN faceBranch(acc, ent.points[1])
  ELSE acc

RECURSIVE forEachEntity(_, _)
\* parsed.entities.forEach(...)
forEachEntity(acc, ents) ==
  IF ents = <<>> THEN acc
  ELSE forEachEntity(entityStep(acc, Head(ents)), Tail(ents))

\* ------------------------------------------------------- parser output
Entity(type, start, end, vertices, points, center, radius) ==
  [type |-> type, start |-> start, end |-> end, vertices |-> vertices,
   points |-> points, center |-> center, radius |-> radius]

LineEnt(start, end) == Entity("LINE", start, end, None, None, None, None)

FaceEnt(vertices) == Entity("3DFACE", None, None, vertices, None, None, None)

SolidEnt(points) == Entity("SOLID", None, None, None, points, None, None)

CircleEnt(center, radius) ==
  Entity("CIRCLE", None, None, None, None, center, radius)

PolylineEnt(vertices) ==
  Entity("LWPOLYLINE", None, None, vertices, None, None, None)

TextEnt == Entity("TEXT", None, None, None, None, None, None)

P(x, y) == Vtx(Some(x), Some(y), None)

P3(x, y, z) == Vtx(Some(x), Some(y), Some(z))

\* the texts the sources hold and what DxfParser.parseSync makes of each:
\* it throws, or returns a document whose entities may be undefined (a text
\* without an ENTITIES section)
Texts == 1..5

parseSync(text) ==
  CASE text = 1 ->
         [throws |-> FALSE,
          entities |-> Some(<<LineEnt(Some(P(0, 0)), Some(P3(4, 2, 2))),
                              CircleEnt(Some(P(0, 0)), Some(2)),
                              LineEnt(Some(P(0, 0)), None),
                              FaceEnt(Some(<<P(0, 0), P(4, 0), P(4, 4), P(0, 4)>>))>>)]
    [] text = 2 ->
         [throws |-> FALSE,
          entities |-> Some(<<SolidEnt(Some(<<P(2, 2), P(6, 2), P(6, 4)>>))>>)]
    [] text = 3 -> [throws |-> FALSE, entities |-> Some(<<>>)]
    [] text = 4 -> [throws |-> FALSE, entities |-> None]
    [] OTHER -> [throws |-> TRUE, entities |-> None]

\* the values of the `file` prop: a URL string or a File object, and what
\* reading it gives: fetch rejects on a transport failure and resolves with
\* the response whatever its status; a FileReader fires onload or onerror
Source(kind, fails, status, text) ==
  [kind |-> kind, fails |-> fails, status |-> status, text |-> text]

Files ==
  << Source("url", FALSE, 200, 1),
     Source("url", FALSE, 404, 4),
     Source("url", TRUE, 0, 5),
     Source("file", FALSE, 0, 2),
     Source("file", FALSE, 0, 5) >>

FileIds == 1..Len(Files)

\* the cameraPosition prop
CameraProps == {None, Some(<<2, 2, 7>>)}

\* the pixel sizes of the container: <<clientWidth, clientHeight>>
Sizes == {<<4, 2>>, <<8, 6>>}

InitialSize == <<4, 2>>

\* ------------------------------------------------------------- state
Sessions == 1..MaxLoads

VARIABLES
  phase,          \* "init", "mounted" or "unmounted"
  cameraPosition, \* the cameraPosition prop
  nEffects,       \* runs of the effect so far; run s builds session s
  file,           \* file[s]: the `file` the effect run s closed over (0: none)
  read,           \* read[s]: "idle", "pending" or "settled": readDXF(file)
  torn,           \* torn[s]: cleanup of session s has run
  scene,          \* scene[s]: the objects added to the THREE.Scene of s
  materials,      \* materials[s]: lineMaterial and meshMaterial of the load
  camera,         \* camera[s].position
  target,         \* target[s]: controls.target
  parserInput,    \* parserInput[s]: the texts handed to parseSync by s
  onLoadCalls,    \* onLoadCalls[s]: invocations of onLoad by the load of s
  onErrorCalls,   \* onErrorCalls[s]: invocations of onError by the load of s
  lateSettle,     \* lateSettle[s]: the read of s settled after its cleanup
  container,      \* the children of the container div (canvas of session s)
  animRef,        \* animRef.current
  rafQueue,       \* pending requestAnimationFrame callbacks: [id, s]
  nextHandle,     \* the next requestAnimationFrame handle
  ranAfterCleanup,\* ranAfterCleanup[s]: animate of s ran after its cleanup
  clientSize,     \* <<clientWidth, clientHeight>> of the container
  resizePending,  \* the size changed and the observer has not yet reported
  disposedUse,    \* disposedUse[s]: render or setSize was called on the
                  \* renderer of s after cleanup disposed it
  tLoop,          \* translation loop on its own: box, hasGeometry, count
  tCur,           \* the entity handed to the callback
  tOut,           \* the objects the last callback added
  tSeen,          \* what the loop has been fed: steps, valid, consumed
  tEnd            \* the rest of loadData after the loop: the camera before
                  \* and after the framing, the target, the callbacks

viewerVars ==
  <<phase, cameraPosition, nEffects, file, read, torn, scene, materials,
    camera, target, parserInput, onLoadCalls, onErrorCalls, lateSettle,
    container, animRef, rafQueue, nextHandle, ranAfterCleanup, clientSize,
    resizePending, disposedUse>>

loopVars == <<tLoop, tCur, tOut, tSeen, tEnd>>

vars == <<viewerVars, loopVars>>

\* ---------------------------------------------------- the effect's parts
\* camera.position.set(cameraPosition?.x ?? 0, ?.y ?? 0, ?.z ?? 5)
initialPosition(prop) ==
  IF prop = None THEN <<0, 0, DefaultCameraZ>> ELSE prop[1]

\* new THREE.OrthographicCamera(clientWidth / -2, clientWidth / 2,
\* clientHeight / 2, clientHeight / -2, 1, 1000), at the origin
OrthographicCamera(size) ==
  [position |-> <<0, 0, 0>>,
   left |-> -(size[1] \div 2), right |-> size[1] \div 2,
   top |-> size[2] \div 2, bottom |-> -(size[2] \div 2),
   near |-> CameraNear, far |-> CameraFar]

\* the camera the effect creates: new OrthographicCamera and
\* camera.position.set(...)
newCamera(size, prop) ==
  [OrthographicCamera(size) EXCEPT !.position = initialPosition(prop)]

\* handleResize writing to the top and bottom what belongs left and right
handleResizeSwapped(cam, size) ==
  [cam EXCEPT !.left = -(size[2] \div 2), !.right = size[2] \div 2,
              !.top = size[1] \div 2, !.bottom = -(size[1] \div 2)]

\* handleResize: camera.left = clientWidth / -2, ... (the position, near
\* and far stay)
handleResize(cam, size) ==
  [cam EXCEPT !.left = -(size[1] \div 2), !.right = size[1] \div 2,
              !.top = size[2] \div 2, !.bottom = -(size[2] \div 2)]

\* new OrbitControls(camera, ...): target = (0, 0, 0)
initialTarget == <<0, 0, 0>>

NoMaterials == [line |-> "none", mesh |-> "none"]

\* a cleanup that does not cancel the pending frame
cancelNothing(queue, ref) == queue

\* cleanup: if (animRef.current !== null) cancelAnimationFrame(animRef.current)
cancelAnimationFrame(queue, ref) ==
  IF ref # None THEN {r \in queue : r.id # ref[1]} ELSE queue

\* cleanup: scene.traverse(obj => obj.geometry.dispose())
disposeGeometries(objects) ==
  [i \in 1..Len(objects) |-> [objects[i] EXCEPT !.geometryDisposed = TRUE]]

\* cleanup: scene.traverse(obj => obj.material.dispose()): a material is
\* reached through the objects of the scene that use it
disposeMaterials(mats, objects) ==
  [m \in {"line", "mesh"} |->
     IF mats[m] = "live" /\ \E i \in 1..Len(objects) : objects[i].material = m
       THEN "disposed" ELSE mats[m]]

\* a cleanup that leaves the canvas in the container
keepChildren(children) == children

\* cleanup: while (container.firstChild) container.removeChild(...)
removeChildren(children) == <<>>

\* container.appendChild(renderer.domElement)
appendChild(children, s) == Append(children, s)

\* animate(): animRef.current = requestAnimationFrame(animate)
requestAnimationFrame(queue, s) == queue \cup {[id |-> nextHandle, s |-> s]}

\* ------------------------------------------------------------ loadData
\* the camera framing after the entity loop
framedTarget(loop, old) ==
  IF loop.hasGeometry THEN getCenter(loop.box) ELSE old

\* framedPosition without the test of hasGeometry
framedPositionAlways(loop, old, prop) ==
  LET center == getCenter(loop.box)
      size == getSize(loop.box)
      maxDim == Max(size[1], size[2])
  IN <<center[1], center[2], IF prop # None THEN prop[1][3] ELSE maxDim * 2>>

framedPosition(loop, old, prop) ==
  IF loop.hasGeometry
    THEN LET center == getCenter(loop.box)
             size == getSize(loop.box)
             maxDim == Max(size[1], size[2])
         IN <<center[1], center[2], IF prop # None THEN prop[1][3] ELSE maxDim * 2>>
    ELSE old

\* the callbacks loadData invokes for a text: onLoad?.() at the end of the
\* try when the parser returned, and onError?.(err) in the catch, which also
\* catches what onLoad raises
onLoadCount(parsedOk) == IF parsedOk THEN 1 ELSE 0

onErrorCount(parsedOk, onLoadRaises) ==
  IF parsedOk /\ ~onLoadRaises THEN 0 ELSE 1

\* loadData reaches renderer.render(scene, camera), the statement before
\* onLoad?.(), when the parser returned
rendersFrame(parsedOk) == parsedOk

\* a readDXF that rejects unless the response is a 200
readResolvesOkOnly(src) == ~src.fails /\ (src.kind = "url" => src.status = 200)

\* whether then(loadData) runs: the promise of readDXF resolved
readResolves(src) == ~src.fails

\* -------------------------------------------------------------- Init
LoopInit ==
  /\ tLoop = [count |-> 0, box |-> Box3, hasGeometry |-> FALSE]
  /\ tCur = None
  /\ tOut = <<>>
  /\ tSeen = [steps |-> 0, valid |-> 0, consumed |-> {}, kinds |-> {}]
  /\ tEnd = None

ViewerInit ==
  /\ phase = "init"
  /\ cameraPosition \in CameraProps
  /\ nEffects = 0
  /\ file = [s \in Sessions |-> 0]
  /\ read = [s \in Sessions |-> "idle"]
  /\ torn = [s \in Sessions |-> FALSE]
  /\ scene = [s \in Sessions |-> <<>>]
  /\ materials = [s \in Sessions |-> NoMaterials]
  /\ camera = [s \in Sessions |-> OrthographicCamera(<<0, 0>>)]
  /\ target = [s \in Sessions |-> initialTarget]
  /\ parserInput = [s \in Sessions |-> <<>>]
  /\ onLoadCalls = [s \in Sessions |-> 0]
  /\ onErrorCalls = [s \in Sessions |-> 0]
  /\ lateSettle = [s \in Sessions |-> FALSE]
  /\ container = <<>>
  /\ animRef = None
  /\ rafQueue = {}
  /\ nextHandle = 1
  /\ ranAfterCleanup = [s \in Sessions |-> FALSE]
  /\ clientSize = InitialSize
  /\ resizePending = FALSE
  /\ disposedUse = [s \in Sessions |-> FALSE]

Init == ViewerInit /\ LoopInit

\* ------------------------------------------------------------ actions
\* the session the refs point to while mounted
Current == nEffects

\* the body of useEffect for run s, on a container whose children are
\* `children` and a frame queue `queue` (both as the cleanup before it, if
\* any, left them): scene, camera, renderer, controls, the first animate()
\* and readDXF(file)
Effect(s, f, children, queue) ==
  /\ nEffects' = s
  /\ file' = [file EXCEPT ![s] = f]
  /\ read' = [read EXCEPT ![s] = "pending"]
  /\ camera' = [camera EXCEPT ![s] = newCamera(clientSize, cameraPosition)]
  /\ container' = appendChild(children, s)
  /\ animRef' = Some(nextHandle)
  /\ rafQueue' = requestAnimationFrame(queue, s)
  /\ nextHandle' = nextHandle + 1

\* the cleanup of session s, but for the container and the frame queue,
\* which the callers pass on to the next effect
Cleanup(s) ==
  /\ torn' = [torn EXCEPT ![s] = TRUE]
  /\ scene' = [scene EXCEPT ![s] = disposeGeometries(scene[s])]
  /\ materials' = [materials EXCEPT ![s] = disposeMaterials(materials[s], scene[s])]

\* first render of <DXFViewer file={f} />
Mount(f) ==
  /\ phase = "init"
  /\ phase' = "mounted"
  /\ Effect(1, f, container, rafQueue)
  /\ UNCHANGED <<cameraPosition, torn, scene, materials, target, parserInput,
                 onLoadCalls, onErrorCalls, lateSettle, ranAfterCleanup,
                 clientSize, resizePending, disposedUse>>
  /\ UNCHANGED loopVars

\* a render with a new file, onLoad or onError: React runs the cleanup of
\* the previous effect and then the effect again
ChangeProps(f) ==
  /\ phase = "mounted"
  /\ nEffects < MaxLoads
  /\ Cleanup(Current)
  /\ Effect(Current + 1, f, removeChildren(container),
            cancelAnimationFrame(rafQueue, animRef))
  /\ UNCHANGED <<phase, cameraPosition, target, parserInput, onLoadCalls,
                 onErrorCalls, lateSettle, ranAfterCleanup, clientSize,
                 resizePending, disposedUse>>
  /\ UNCHANGED loopVars

Unmount ==
  /\ phase = "mounted"
  /\ phase' = "unmounted"
  /\ Cleanup(Current)
  /\ container' = removeChildren(container)
  /\ rafQueue' = cancelAnimationFrame(rafQueue, animRef)
  /\ UNCHANGED <<cameraPosition, nEffects, file, read, camera, target,
                 parserInput, onLoadCalls, onErrorCalls, lateSettle, animRef,
                 nextHandle, ranAfterCleanup, clientSize, resizePending,
                 disposedUse>>
  /\ UNCHANGED loopVars

\* readDXF(file) of session s rejects: the chain's .catch calls onError
ReadRejects(s) ==
  /\ read[s] = "pending"
  /\ ~readResolves(Files[file[s]])
  /\ read' = [read EXCEPT ![s] = "settled"]
  /\ lateSettle' = [lateSettle EXCEPT ![s] = torn[s]]
  /\ onErrorCalls' = [onErrorCalls EXCEPT ![s] = @ + 1]
  /\ UNCHANGED <<phase, cameraPosition, nEffects, file, torn, scene, materials,
                 camera, target, parserInput, onLoadCalls, container, animRef,
                 rafQueue, nextHandle, ranAfterCleanup, clientSize,
                 resizePending, disposedUse>>
  /\ UNCHANGED loopVars

\* the entity loop of loadData on each text: parsed.entities.forEach(...)
\* when the parser returned and the document has entities
entityLoop ==
  [text \in Texts |->
     LET parsed == parseSync(text) IN
     IF ~parsed.throws /\ parsed.entities # None
       THEN forEachEntity(NewLoop, parsed.entities[1])
       ELSE NewLoop]

\* readDXF(file) of session s resolves with the text: then(loadData) runs
\* loadData(text) of that session's closure, on its scene, camera and
\* controls; onLoad may raise
LoadData(s, onLoadRaises) ==
  /\ read[s] = "pending"
  /\ readResolves(Files[file[s]])
  /\ LET text == Files[file[s]].text
         parsed == parseSync(text)
         translate == ~parsed.throws /\ parsed.entities # None
         loop == entityLoop[text]
     IN /\ parserInput' = [parserInput EXCEPT ![s] = Append(@, text)]
        /\ materials' = [materials EXCEPT ![s] =
             IF translate THEN [line |-> "live", mesh |-> "live"] ELSE @]
        /\ scene' = [scene EXCEPT ![s] = @ \o loop.added]
        /\ target' = [target EXCEPT ![s] = framedTarget(loop, @)]
        /\ camera' = [camera EXCEPT ![s].position =
             framedPosition(loop, @, cameraPosition)]
        /\ onLoadCalls' = [onLoadCalls EXCEPT ![s] = @ + onLoadCount(~parsed.throws)]
        /\ onErrorCalls' = [onErrorCalls EXCEPT ![s] =
             @ + onErrorCount(~parsed.throws, onLoadRaises)]
        /\ disposedUse' = [disposedUse EXCEPT ![s] =
             @ \/ (torn[s] /\ rendersFrame(~parsed.throws))]
  /\ read' = [read EXCEPT ![s] = "settled"]
  /\ lateSettle' = [lateSettle EXCEPT ![s] = torn[s]]
  /\ UNCHANGED <<phase, cameraPosition, nEffects, file, torn, container,
                 animRef, rafQueue, nextHandle, ranAfterCleanup, clientSize,
                 resizePending>>
  /\ UNCHANGED loopVars

\* the browser runs a pending frame callback: animate of its session
Animate(r) ==
  /\ r \in rafQueue
  /\ nextHandle - 1 - nEffects < MaxFrames
  /\ animRef' = Some(nextHandle)
  /\ rafQueue' = requestAnimationFrame(rafQueue \ {r}, r.s)
  /\ nextHandle' = nextHandle + 1
  /\ ranAfterCleanup' = [ranAfterCleanup EXCEPT ![r.s] = @ \/ torn[r.s]]
  /\ disposedUse' = [disposedUse EXCEPT ![r.s] = @ \/ torn[r.s]]
  /\ UNCHANGED <<phase, cameraPosition, nEffects, file, read, torn, scene,
                 materials, camera, target, parserInput, onLoadCalls,
                 onErrorCalls, lateSettle, container, clientSize,
                 resizePending>>
  /\ UNCHANGED loopVars

Next ==
  \/ \E f \in FileIds : Mount(f)
  \/ \E f \in FileIds : ChangeProps(f)
  \/ Unmount
  \/ \E s \in Sessions : ReadRejects(s)
  \/ \E s \in Sessions, raises \in BOOLEAN : LoadData(s, raises)
  \/ \E r \in rafQueue : Animate(r)

Spec == Init /\ [][Next]_vars

\* --------------------------------------------- the viewer and its resizes
\* the layout gives the container another size; the ResizeObserver will
\* report it
SizeChange(size) ==
  /\ phase = "mounted"
  /\ size # clientSize
  /\ clientSize' = size
  /\ resizePending' = TRUE
  /\ UNCHANGED <<phase, cameraPosition, nEffects, file, read, torn, scene,
                 materials, camera, target, parserInput, onLoadCalls,
                 onErrorCalls, lateSettle, container, animRef, rafQueue,
                 nextHandle, ranAfterCleanup, disposedUse>>
  /\ UNCHANGED loopVars

\* the ResizeObserver of useResizeObserver, connected from the mount to the
\* unmount, delivers an entry (the one on observe() or one for a change of
\* size): handleResize runs on what the refs hold, the live session, with
\* renderer.setSize, the camera extents and renderer.render
Observe ==
  /\ phase = "mounted"
  /\ camera' = [camera EXCEPT ![Current] = handleResize(@, clientSize)]
  /\ resizePending' = FALSE
  /\ disposedUse' = [disposedUse EXCEPT ![Current] = @ \/ torn[Current]]
  /\ UNCHANGED <<phase, cameraPosition, nEffects, file, read, torn, scene,
                 materials, target, parserInput, onLoadCalls, onErrorCalls,
                 lateSettle, container, animRef, rafQueue, nextHandle,
                 ranAfterCleanup, clientSize>>
  /\ UNCHANGED loopVars

\* the files of the viewer when it is checked with its resizes: one whose
\* load frames the camera and one whose read rejects
ViewFiles == {1, 3}

NextV ==
  \/ \E f \in ViewFiles : Mount(f)
  \/ \E f \in ViewFiles : ChangeProps(f)
  \/ Unmount
  \/ \E s \in Sessions : ReadRejects(s)
  \/ \E s \in Sessions, raises \in BOOLEAN : LoadData(s, raises)
  \/ \E r \in rafQueue : Animate(r)
  \/ \E size \in Sizes : SizeChange(size)
  \/ Observe

SpecV == Init /\ [][NextV]_vars

\* ------------------------------------- the translation loop on its own
\* the vertices the arrays are drawn from: two points and a vertex without
\* a numeric x; and arrays with a point given with and without an explicit
\* z of 0, with a null element, with a vertex without y, and of 5 points
FaceVertices == {P(0, 0), P(2, 2), Vtx(None, Some(0), None)}

VertexArrays ==
  UNION {[1..n -> FaceVertices] : n \in 0..MaxVerts}
    \cup {<<P(0, 0), P(2, 2), P3(2, 2, 0)>>,
          <<P(0, 0), P(4, 0), P(2, 2), P3(2, 2, 0)>>,
          <<P(0, 0), P(4, 0), P3(2, 2, 0), P3(2, 2, 2)>>,
          <<P(0, 0), NullVtx, P(2, 2), P(4, 0)>>,
          <<P(0, 0), P(2, 2), Vtx(Some(2), None, None), NullVtx>>,
          <<P(0, 0), P(4, 0), P3(4, 4, 2), P(0, 4), P(2, 2)>>}

LineEnds ==
  {None, Some(P(0, 0)), Some(P3(4, 2, 2)), Some(Vtx(None, Some(0), None)),
   Some(Vtx(Some(0), None, None))}

Entities ==
  {LineEnt(a, b) : a \in LineEnds, b \in LineEnds}
    \cup {FaceEnt(Some(arr)) : arr \in VertexArrays}
    \cup {SolidEnt(Some(arr)) : arr \in VertexArrays}
    \cup {FaceEnt(None), SolidEnt(None),
          Entity("LINE", None, None, Some(<<P(0, 0), P(2, 2)>>), None, None, None),
          CircleEnt(Some(P(0, 0)), Some(2)), CircleEnt(Some(P(0, 0)), None),
          PolylineEnt(Some(<<P(0, 0), P(2, 2)>>)), PolylineEnt(None),
          TextEnt}

\* the loop takes the next element of parsed.entities
DrawEntity(e) ==
  /\ tCur = None
  /\ tEnd = None
  /\ tSeen.steps < MaxEnts
  /\ tCur' = Some(e)
  /\ tOut' = <<>>
  /\ UNCHANGED <<tLoop, tSeen, tEnd>>
  /\ UNCHANGED viewerVars

\* what the specification calls an entity whose required fields validate
\* and the coordinates a translation consumes (spec 4.2), written without
\* the operators that model the code
RECURSIVE NumericVertices(_)
NumericVertices(arr) ==
  IF arr = <<>> THEN <<>>
  ELSE LET v == Head(arr)
           rest == NumericVertices(Tail(arr))
       IN IF ~v.nul /\ v.x # None /\ v.y # None THEN <<v>> \o rest ELSE rest

Point3(v) == <<v.x[1], v.y[1], IF v.z = None THEN 0 ELSE v.z[1]>>

UsedPoints(arr) ==
  LET nv == NumericVertices(arr)
  IN [i \in 1..(IF Len(nv) > 4 THEN 4 ELSE Len(nv)) |-> Point3(nv[i])]

NumericPoint(o) == o # None /\ ~o[1].nul /\ o[1].x # None /\ o[1].y # None

RequiredFieldsValidate(ent) ==
  CASE ent.type = "LINE" -> NumericPoint(ent.start) /\ NumericPoint(ent.end)
    [] ent.type = "3DFACE" ->
         ent.vertices # None /\ Len(NumericVertices(ent.vertices[1])) >= 3
    [] ent.type = "SOLID" ->
         ent.points # None /\ Len(NumericVertices(ent.points[1])) >= 3
    [] ent.type \in {"ARC", "CIRCLE"} ->
         NumericPoint(ent.center) /\ ent.radius # None
    [] ent.type \in {"POLYLINE", "LWPOLYLINE"} ->
         ent.vertices # None /\ Len(NumericVertices(ent.vertices[1])) >= 2
    [] OTHER -> FALSE

ConsumedPoints(ent) ==
  IF ~RequiredFieldsValidate(ent) THEN {}
  ELSE CASE ent.type = "LINE" -> {Point3(ent.start[1]), Point3(ent.end[1])}
         [] ent.type = "3DFACE" ->
              {UsedPoints(ent.vertices[1])[i] : i \in 1..Len(UsedPoints(ent.vertices[1]))}
         [] ent.type = "SOLID" ->
              {UsedPoints(ent.points[1])[i] : i \in 1..Len(UsedPoints(ent.points[1]))}
         [] OTHER -> {}

\* the forEach callback runs on the element: the scene is kept as the
\* number of objects added so far, tOut holds the objects this call added
TranslateStep ==
  /\ tCur # None
  /\ LET e == tCur[1]
         r == entityStep([added |-> <<>>, box |-> tLoop.box,
                          hasGeometry |-> tLoop.hasGeometry], e)
     IN /\ tLoop' = [count |-> tLoop.count + Len(r.added), box |-> r.box,
                     hasGeometry |-> r.hasGeometry]
        /\ tOut' = r.added
        /\ tSeen' = [steps |-> tSeen.steps + 1,
                     valid |-> tSeen.valid + (IF RequiredFieldsValidate(e) THEN 1 ELSE 0),
                     consumed |-> tSeen.consumed \cup ConsumedPoints(e),
                     kinds |-> tSeen.kinds \cup {e.type}]
  /\ tCur' = None
  /\ UNCHANGED tEnd
  /\ UNCHANGED viewerVars

\* the loop is over: loadData goes on, for an effect whose cameraPosition
\* prop is prop, with the framing, renderer.render and onLoad?.(), which
\* may raise into the catch
FinishLoad(prop, onLoadRaises) ==
  /\ tCur = None
  /\ tEnd = None
  /\ LET before == newCamera(clientSize, prop)
     IN tEnd' = Some([prop |-> prop,
                      before |-> before,
                      camera |-> [before EXCEPT !.position =
                                    framedPosition(tLoop, @, prop)],
                      target |-> framedTarget(tLoop, initialTarget),
                      raises |-> onLoadRaises,
                      onLoad |-> onLoadCount(TRUE),
                      onError |-> onErrorCount(TRUE, onLoadRaises)])
  /\ UNCHANGED <<tLoop, tCur, tOut, tSeen>>
  /\ UNCHANGED viewerVars

NextT ==
  \/ \E e \in Entities : DrawEntity(e)
  \/ TranslateStep
  \/ \E prop \in CameraProps, raises \in BOOLEAN : FinishLoad(prop, raises)

\* the loop does not read the cameraPosition prop: it starts without one
InitT == Init /\ cameraPosition = None

SpecT == InitT /\ [][NextT]_vars

\* the reads are asynchronous: a pending read is eventually settled, and
\* its continuation run (onLoad may raise or not)
Settle(s) ==
  \/ ReadRejects(s)
  \/ \E raises \in BOOLEAN : LoadData(s, raises)

FairSpec == Spec /\ \A s \in Sessions : WF_vars(Settle(s))

\* ====================================================== the properties
NonSuccess(src) == src.kind = "url" /\ ~src.fails /\ ~(src.status \in 200..299)

FramesDrawn == nextHandle - 1 - nEffects

\* C1: when the file changes before the first load's read has resolved, the
\* first load's text, once it arrives, causes no scene addition at all.
C1_StaleLoadAddsNothing ==
  \A s \in Sessions :
    (lateSettle[s] /\ s < nEffects) => Len(scene[s]) = 0

\* C2: every load request invokes exactly one of onLoad / onError, exactly
\* once: onLoad when the read and the parse both succeed, onError otherwise;
\* never both and never twice, also when a callback raises.
C2_ExactlyOneCallback ==
  \A s \in Sessions :
    /\ onLoadCalls[s] + onErrorCalls[s] <= 1
    /\ read[s] = "settled" =>
         /\ onLoadCalls[s] + onErrorCalls[s] = 1
         /\ onLoadCalls[s] = 1 <=>
              (~Files[file[s]].fails /\ ~parseSync(Files[file[s]].text).throws)

\* C3: a URL load whose response has a non-success status fails: onError is
\* invoked, the body is not handed to the parser, nothing is added to the
\* scene and onLoad is not invoked.
C3_NonSuccessStatusFails ==
  \A s \in Sessions :
    (read[s] = "settled" /\ NonSuccess(Files[file[s]])) =>
      /\ onErrorCalls[s] >= 1
      /\ parserInput[s] = <<>>
      /\ scene[s] = <<>>
      /\ onLoadCalls[s] = 0

\* C4: a load that ends in a failure (onError invoked for it) has left no
\* primitive in the scene, and the camera position and the controls target
\* are what they were before the load.
C4_FailureCommitsNothing ==
  \A s \in Sessions :
    onErrorCalls[s] > 0 =>
      /\ scene[s] = <<>>
      /\ camera[s].position = initialPosition(cameraPosition)
      /\ target[s] = initialTarget

\* C5: once the cleanup of a session has run, every geometry and every
\* material its load created is disposed (whether or not a primitive uses
\* the material, and whenever the load completed).
C5_AllDisposedAfterCleanup ==
  \A s \in Sessions :
    torn[s] =>
      /\ \A i \in 1..Len(scene[s]) : scene[s][i].geometryDisposed
      /\ materials[s].line # "live"
      /\ materials[s].mesh # "live"

\* C6: after the cleanup of a session no frame callback of its animate is
\* pending and its animate has not run since.
C6_AnimationHalted ==
  \A s \in Sessions :
    torn[s] =>
      /\ \A r \in rafQueue : r.s # s
      /\ ~ranAfterCleanup[s]

\* a session torn down by a change of file after frames were drawn, and the
\* next one by the unmount
C6_Witness ==
  /\ phase = "unmounted"
  /\ nEffects >= 2
  /\ torn[1] /\ torn[2]
  /\ FramesDrawn >= 2

\* C7: the container holds exactly one canvas (that of the live session)
\* while the viewer is mounted and none after the unmount.
C7_OneCanvas ==
  /\ phase = "mounted" => container = <<Current>>
  /\ phase = "unmounted" => container = <<>>

\* unmounted after a change of file
C7_Witness ==
  /\ phase = "unmounted"
  /\ nEffects >= 2
  /\ container = <<>>
  /\ read[1] = "settled"

\* session s has started a load of a file whose read succeeds
ReadSucceeds(s) == file[s] # 0 /\ ~Files[file[s]].fails

\* the parser was invoked once by the load of s, on the text read
ParsedText(s) == file[s] # 0 /\ parserInput[s] = <<Files[file[s]].text>>

\* C8: a load whose read succeeds eventually has its text handed to the
\* parser, and the parser is invoked once for the load.
C8_ParsedOnce ==
  /\ [](\A s \in Sessions : Len(parserInput[s]) <= 1)
  /\ [](\A s \in Sessions :
          (read[s] = "settled" /\ ReadSucceeds(s)) => ParsedText(s))
  /\ \A s \in Sessions :
       (read[s] = "pending" /\ ReadSucceeds(s)) ~> ParsedText(s)

\* the parser was handed the text of a load, and of one superseded before
\* its read resolved
C8_Witness ==
  \E s \in Sessions :
    /\ read[s] = "settled"
    /\ lateSettle[s]
    /\ ReadSucceeds(s)
    /\ ParsedText(s)

\* the entity kinds the specification lists as recognized
RecognizedKinds ==
  {"LINE", "ARC", "CIRCLE", "SPLINE", "POLYLINE", "LWPOLYLINE", "3DFACE", "SOLID"}

\* the entity kinds loadData translates
TranslatedKinds == {"LINE", "3DFACE", "SOLID"}

CountAndBounds ==
  /\ tLoop.count = tSeen.valid
  /\ \A p \in tSeen.consumed : containsPoint(tLoop.box, p)

FaceArray(ent) == IF ent.type = "3DFACE" THEN ent.vertices ELSE ent.points

FaceRule(ent, out) ==
  LET pts == UsedPoints(FaceArray(ent)[1]) IN
  /\ Len(pts) = 3 => Len(out) = 1 /\ out[1].index = <<0, 1, 2>>
  /\ (Len(pts) = 4 /\ pts[4] # pts[3]) =>
       Len(out) = 1 /\ out[1].index = <<0, 1, 2, 0, 2, 3>>
  /\ (Len(pts) = 4 /\ pts[4] = pts[3]) =>
       Len(out) = 1 /\ out[1].index = <<0, 1, 2>>
  /\ Len(pts) < 3 => out = <<>>
  /\ Len(out) = 1 => out[1].pts = pts

\* C10: a 3DFACE or SOLID, after dropping the vertices without numeric x
\* and y and keeping the first 4: 3 points give indices [0,1,2]; 4 points
\* with the 4th different from the 3rd give [0,1,2,0,2,3]; 4 points with
\* the 4th equal to the 3rd give [0,1,2]; fewer than 3 give no primitive.
C10_FaceIndices ==
  [][(/\ tCur # None
      /\ tCur' = None
      /\ tCur[1].type \in {"3DFACE", "SOLID"}
      /\ FaceArray(tCur[1]) # None)
       => FaceRule(tCur[1], tOut')]_vars

\* a quad whose 4th point equals the 3rd (one with an explicit z of 0, the
\* other without z), translated to one triangle
C10_Witness ==
  /\ Len(tOut) = 1
  /\ tOut[1].kind = "Mesh"
  /\ Len(tOut[1].pts) = 4
  /\ tOut[1].pts[4] = tOut[1].pts[3]
  /\ tOut[1].index = <<0, 1, 2>>
  /\ tSeen.steps = 2

\* an entity the claim calls skipped: a type tag outside the recognized
\* kinds, or required fields missing or not numeric
Skipped(ent) == ent.type \notin RecognizedKinds \/ ~RequiredFieldsValidate(ent)

\* an entity of a kind loadData translates, with its required fields
Translatable(ent) == ent.type \in TranslatedKinds /\ RequiredFieldsValidate(ent)

\* the callback has run on the entity tCur
StepDone == tCur # None /\ tCur' = None

C12_NoGeometryNoFraming ==
  (tEnd # None /\ tLoop.count = 0) =>
    /\ tEnd[1].camera = tEnd[1].before
    /\ tEnd[1].target = initialTarget

\* a load of two entities, both skipped, one of them a LINE
C12_Witness ==
  /\ tEnd # None
  /\ tEnd[1].prop = None
  /\ tSeen.steps = 2
  /\ "LINE" \in tSeen.kinds
  /\ tLoop.count = 0
  /\ tEnd[1].camera.position = <<0, 0, DefaultCameraZ>>

\* the z the specification gives the framed camera
SpecZ(prop, box) ==
  IF prop # None THEN prop[1][3]
  ELSE Max(2 * Max(box.max[1] - box.min[1], box.max[2] - box.min[2]), 1)

\* the centre of a box, written without the operators that model the code
BoxCenter(box) == [i \in 1..3 |-> (box.min[i] + box.max[i]) \div 2]

\* C13: after a load that produced a primitive, the target is the centre
\* of the bounding box and the camera is at (center.x, center.y, Z), Z
\* being cameraPosition.z when given and max(2 * max(width, height), 1)
\* otherwise: never below 1 without an explicit z.
C13_FramedPose ==
  (tEnd # None /\ tLoop.count > 0) =>
    /\ tEnd[1].target = BoxCenter(tLoop.box)
    /\ tEnd[1].camera.position =
         <<BoxCenter(tLoop.box)[1], BoxCenter(tLoop.box)[2],
           SpecZ(tEnd[1].prop, tLoop.box)>>

\* C14: after a load that produced a primitive, far is max(2 * cameraZ, 1),
\* near is positive, and every point of the geometry is between the near
\* and the far plane of the camera.
C14_DepthRange ==
  (tEnd # None /\ tLoop.count > 0) =>
    LET cam == tEnd[1].camera IN
    /\ cam.far = Max(2 * cam.position[3], 1)
    /\ cam.near > 0
    /\ \A p \in tSeen.consumed :
         cam.near <= cam.position[3] - p[3] /\ cam.position[3] - p[3] <= cam.far

\* a LINE given by a vertices array of its two endpoints
LineByVertices(ent) ==
  /\ ent.type = "LINE"
  /\ ent.start = None
  /\ ent.end = None
  /\ ent.vertices # None
  /\ Len(ent.vertices[1]) = 2
  /\ Len(NumericVertices(ent.vertices[1])) = 2

\* C15: a LINE is translated to a two-point segment in both input shapes,
\* with start and end or with a vertices array of its two endpoints: one
\* primitive is added and both endpoints are in the bounds.
C15_BothLineShapes ==
  [][(StepDone /\ tCur[1].type = "LINE"
        /\ (LineByVertices(tCur[1]) \/ RequiredFieldsValidate(tCur[1])))
       => /\ Len(tOut') = 1
          /\ tOut'[1].kind = "Line"
          /\ Len(tOut'[1].pts) = 2
          /\ \A i \in 1..2 : containsPoint(tLoop'.box, tOut'[1].pts[i])
          /\ LineByVertices(tCur[1]) =>
               tOut'[1].pts = [i \in 1..2 |-> Point3(tCur[1].vertices[1][i])]]_vars

Extents(cam) == <<cam.left, cam.right, cam.top, cam.bottom>>

SizeExtents(size) ==
  <<-(size[1] \div 2), size[1] \div 2, size[2] \div 2, -(size[2] \div 2)>>

\* C16: while the viewer is mounted and the observer has reported the last
\* change of size, after any resizes, loads and changes of file, the
\* orthographic extents of the live camera are left = -width/2,
\* right = width/2, top = height/2, bottom = -height/2 of the container;
\* framing after a load leaves them unchanged.
C16_ExtentsFollowSize ==
  (phase = "mounted" /\ ~resizePending) =>
    Extents(camera[Current]) = SizeExtents(clientSize)

\* a second session, resized to another size, whose load has framed the
\* camera
C16_Witness ==
  /\ phase = "mounted"
  /\ nEffects = 2
  /\ ~resizePending
  /\ clientSize = <<8, 6>>
  /\ scene[Current] # <<>>
  /\ camera[Current].position # initialPosition(cameraPosition)
  /\ Extents(camera[Current]) = <<-4, 4, 3, -3>>

\* C17: render and setSize are never called on a renderer that cleanup has
\* disposed, in any interleaving of load completions, resizes, animation
\* frames and cleanups.
C17_NoUseAfterDispose ==
  \A s \in Sessions : ~disposedUse[s]

\* C18: after the unmount neither onLoad nor onError is invoked for the load
\* that was in flight at the unmount.
C18_SilentAfterUnmount ==
  (phase = "unmounted" /\ lateSettle[nEffects]) =>
    (onLoadCalls[nEffects] = 0 /\ onErrorCalls[nEffects] = 0)

====
